---- MODULE Spec2Model ----
(***************************************************************************)
(* A model of the chinese_checkers board engine (src/src/board.rs) and of  *)
(* the part of its GUI driver (src/src/gui.rs) that calls it.              *)
(*                                                                         *)
(* A HexCoord is the pair <<horz, slant>>.  A Spot is "Empty" or the name  *)
(* of the side whose piece stands on it (Spot::Player(side)).  The board   *)
(* HashMap is a function whose DOMAIN is its key set.                      *)
(***************************************************************************)
EXTENDS Integers, Sequences, FiniteSets, TLC

VARIABLES
    board,          \* Board.board   : HashMap<HexCoord, Spot>
    players,        \* Board.players : HashSet<Player>
    turn,           \* Board.turn    : Player
    phase,          \* BoardGame.phase
    lifted_piece,   \* BoardGame.lifted_piece : Option<LiftedPiece>
    input,          \* the DragNDrop the game reads the mouse through
    pc,             \* "running", "panicked" (an unwrap on None), "unreachable" (an
                    \* unreachable!() that was reached) or "looping" (a loop that never ends)
    last,           \* the call that returned last: its name, arguments and result
    nops,           \* number of Board calls made so far (bounds the API-level run)
    nmoves          \* number of make_move calls made so far

boardVars == <<board, players, turn>>
guiVars == <<phase, lifted_piece, input>>
vars == <<board, players, turn, phase, lifted_piece, input, pc, last, nops, nmoves>>

-----------------------------------------------------------------------------
(* SideOfStar                                                              *)

Sides == {"A", "B", "C", "D", "E", "F"}

\* SideOfStar::all()
AllSides == <<"A", "B", "C", "D", "E", "F">>

\* the derived Ord of the enum: declaration order
SideOrd(s) == CHOOSE i \in 1..6 : AllSides[i] = s

ForwardSkipsWrap(s) ==
    CASE s = "A" -> "B" [] s = "B" -> "C" [] s = "C" -> "D"
      [] s = "D" -> "E" [] s = "E" -> "F" [] s = "F" -> "F"

forward(s) ==
    CASE s = "A" -> "B" [] s = "B" -> "C" [] s = "C" -> "D"
      [] s = "D" -> "E" [] s = "E" -> "F" [] s = "F" -> "A"

\* each side is paired with its neighbour
OppositeSwapsNeighbours(s) ==
    CASE s = "A" -> "B" [] s = "B" -> "A" [] s = "C" -> "D"
      [] s = "D" -> "C" [] s = "E" -> "F" [] s = "F" -> "E"

opposite(s) ==
    CASE s = "A" -> "D" [] s = "B" -> "E" [] s = "C" -> "F"
      [] s = "D" -> "A" [] s = "E" -> "B" [] s = "F" -> "C"

\* players.iter().min(): None on an empty set
NoSide == "NoSide"
MinSide(set) ==
    IF set = {} THEN NoSide
    ELSE CHOOSE s \in set : \A t \in set : SideOrd(s) <= SideOrd(t)

-----------------------------------------------------------------------------
(* Spot                                                                    *)

Empty == "Empty"
\* Option::None of Board::get
None == "None"

is_empty(spot) == spot = Empty
is_full(spot) == ~is_empty(spot)
\* the pattern Some(Spot::Player(_))
IsSomePlayer(opt) == opt \in Sides

-----------------------------------------------------------------------------
(* HexCoord                                                                *)

Add(a, b) == <<a[1] + b[1], a[2] + b[2]>>
Neg(a) == <<-a[1], -a[2]>>
Sub(a, b) == Add(a, Neg(b))
Mul(a, k) == <<a[1] * k, a[2] * k>>

NEIGHBOR_OFFSETS == << <<1, 0>>, <<1, -1>>, <<0, -1>>, <<-1, 0>>, <<-1, 1>>, <<0, 1>> >>

neighbors(c) == [i \in 1..6 |-> Add(c, NEIGHBOR_OFFSETS[i])]

\* the landing cell is three steps away
JumpNeighborsTriple(c) == [i \in 1..6 |-> Add(c, Mul(NEIGHBOR_OFFSETS[i], 3))]

jump_neighbors(c) == [i \in 1..6 |-> Add(c, Mul(NEIGHBOR_OFFSETS[i], 2))]

Min2(a, b) == IF a <= b THEN a ELSE b

\* Vec::contains
Contains(seq, x) == \E i \in 1..Len(seq) : seq[i] = x

SeqToSet(seq) == {seq[i] : i \in 1..Len(seq)}

\* row `offset` of triangle_tip_up: (0..size).take(offset + 1), horz going down
TipUpRow(root, size, offset) ==
    [n \in 1..Min2(size, offset + 1) |-> <<root[1] - (n - 1), root[2] + offset>>]

RECURSIVE TipUpRows(_, _, _)
TipUpRows(root, size, offset) ==
    IF offset >= size THEN <<>>
    ELSE TipUpRow(root, size, offset) \o TipUpRows(root, size, offset + 1)

triangle_tip_up(root, size) == TipUpRows(root, size, 0)

\* row `offset` of triangle_tip_down: horz going up, slant going down
TipDownRow(root, size, offset) ==
    [n \in 1..Min2(size, offset + 1) |-> <<root[1] + (n - 1), root[2] - offset>>]

RECURSIVE TipDownRows(_, _, _)
TipDownRows(root, size, offset) ==
    IF offset >= size THEN <<>>
    ELSE TipDownRow(root, size, offset) \o TipDownRows(root, size, offset + 1)

\* the rows are built as those of triangle_tip_up
TriangleTipDownAsUp(root, size) == TipUpRows(root, size, 0)

triangle_tip_down(root, size) == TipDownRows(root, size, 0)

-----------------------------------------------------------------------------
(* gen_board, gen_players                                                  *)

\* HashMap::insert: adds the key when it is new, overwrites otherwise
Insert(map, key, value) ==
    IF key \in DOMAIN map THEN [map EXCEPT ![key] = value]
    ELSE [k \in (DOMAIN map) \cup {key} |-> IF k = key THEN value ELSE map[k]]

gen_board ==
    LET big_triangle == triangle_tip_up(<<4, -8>>, 13)
        triangle_1 == triangle_tip_down(<<-4, -1>>, 4)
        triangle_2 == triangle_tip_down(<<5, -1>>, 4)
        triangle_3 == triangle_tip_down(<<-4, 8>>, 4)
        chain == big_triangle \o triangle_1 \o triangle_2 \o triangle_3
    IN  [coord \in SeqToSet(chain) |-> Empty]

\* an unsupported count falls through to all six sides
GenPlayersInvalidIsSix(players_count) ==
    LET count == IF players_count \in {2, 3, 4, 6} THEN players_count ELSE 6
    IN  CASE count = 2 -> {"A", "D"}
          [] count = 3 -> {"A", "C", "E"}
          [] count = 4 -> {"A", "B", "D", "E"}
          [] count = 6 -> {"A", "B", "C", "D", "E", "F"}

gen_players(players_count) ==
    LET count == IF players_count \in {2, 3, 4, 6} THEN players_count ELSE 2
    IN  CASE count = 2 -> {"A", "D"}
          [] count = 3 -> {"A", "C", "E"}
          [] count = 4 -> {"A", "B", "D", "E"}
          [] count = 6 -> {"A", "B", "C", "D", "E", "F"}

-----------------------------------------------------------------------------
(* Board: the cell operations, as functions of the map                     *)

get(b, coord) == IF coord \in DOMAIN b THEN b[coord] ELSE None

is_valid(b, coord) == coord \in DOMAIN b

PutPlayerUnchecked(b, coord, player) == Insert(b, coord, player)

put_player(b, coord, player) ==
    IF ~is_valid(b, coord) THEN b ELSE Insert(b, coord, player)

\* the cell is left as it is
RemovePlayerKeepsPiece(b, coord) == b

remove_player(b, coord) ==
    IF ~is_valid(b, coord) THEN b ELSE Insert(b, coord, Empty)

\* coord2 is written with what coord1 holds after it was overwritten
SwapReadsAfterWrite(b, coord1, coord2) ==
    IF ~is_valid(b, coord1) \/ ~is_valid(b, coord2) THEN b
    ELSE LET after == Insert(b, coord1, b[coord2])
         IN  Insert(after, coord2, after[coord1])

SwapCopies(b, coord1, coord2) ==
    IF ~is_valid(b, coord1) \/ ~is_valid(b, coord2) THEN b
    ELSE Insert(b, coord2, b[coord1])

swap(b, coord1, coord2) ==
    IF ~is_valid(b, coord1) \/ ~is_valid(b, coord2) THEN b
    ELSE LET spot1 == b[coord1]
             spot2 == b[coord2]
         IN  Insert(Insert(b, coord1, spot2), coord2, spot1)

\* the tip of C is the tip of A
PlayerTipCopiesA(side) ==
    CASE side = "A" -> triangle_tip_up(<<4, -8>>, 4)
      [] side = "B" -> triangle_tip_down(<<5, -1>>, 4)
      [] side = "C" -> triangle_tip_up(<<4, -8>>, 4)
      [] side = "D" -> triangle_tip_down(<<-4, 8>>, 4)
      [] side = "E" -> triangle_tip_up(<<-5, 1>>, 4)
      [] side = "F" -> triangle_tip_down(<<-4, -1>>, 4)

\* the closure player_tip of setup_players
player_tip(side) ==
    CASE side = "A" -> triangle_tip_up(<<4, -8>>, 4)
      [] side = "B" -> triangle_tip_down(<<5, -1>>, 4)
      [] side = "C" -> triangle_tip_up(<<4, 1>>, 4)
      [] side = "D" -> triangle_tip_down(<<-4, 8>>, 4)
      [] side = "E" -> triangle_tip_up(<<-5, 1>>, 4)
      [] side = "F" -> triangle_tip_down(<<-4, -1>>, 4)

\* the inner for loop of setup_players, from index i of the tip (the test on
\* is_valid makes TLC compute the map of this iteration before the next one)
RECURSIVE SetupTip(_, _, _, _, _)
SetupTip(b, player, player_exists, tip, i) ==
    IF i > Len(tip) THEN b
    ELSE LET after == IF player_exists THEN put_player(b, tip[i], player)
                                       ELSE remove_player(b, tip[i])
         IN  IF is_valid(after, tip[i]) = is_valid(b, tip[i])
             THEN SetupTip(after, player, player_exists, tip, i + 1)
             ELSE SetupTip(after, player, player_exists, tip, i + 1)

\* the outer for loop of setup_players, from index k of Player::all()
RECURSIVE SetupSides(_, _, _)
SetupSides(b, ps, k) ==
    IF k > Len(AllSides) THEN b
    ELSE LET player == AllSides[k]
             after == SetupTip(b, player, player \in ps, player_tip(player), 1)
         IN  IF DOMAIN after = DOMAIN b
             THEN SetupSides(after, ps, k + 1)
             ELSE SetupSides(after, ps, k + 1)

\* the cells setup_players leaves (its last line, the turn, is in the action)
setup_cells(b, ps) == SetupSides(b, ps, 1)

\* the turn goes to the side after the current one when that side is active
SetupTurnNextActive(ps, t) ==
    IF forward(t) \in ps THEN forward(t) ELSE MinSide(ps)

\* board.rs:239, self.turn = self.players.iter().min().unwrap(): NoSide stands
\* for the None the unwrap panics on
setup_turn(ps, t) == MinSide(ps)

-----------------------------------------------------------------------------
(* Board::validate_move                                                    *)

\* board.rs:320, jump_centers = new_jump_centers
NextJumpCentersKeepsOld(jump_centers, new_jump_centers) == jump_centers \o new_jump_centers

NextJumpCentersNone(jump_centers, new_jump_centers) == <<>>

NextJumpCenters(jump_centers, new_jump_centers) == new_jump_centers

\* board.rs:319, traversed_jump_centers.append(&mut jump_centers)
TraversedAfter(traversed_jump_centers, jump_centers) == traversed_jump_centers \o jump_centers

\* board.rs:307-316 for the directions i..6 of one jump centre: whether the
\* target was reached, and new_jump_centers after the pushes
RECURSIVE ExpandCenter(_, _, _, _, _, _)
ExpandCenter(b, jump_center, i, traversed_jump_centers, end_coord, new_jump_centers) ==
    IF i > 6 THEN [found |-> FALSE, new |-> new_jump_centers]
    ELSE LET neighbor == neighbors(jump_center)[i]
             jump_neighbor == jump_neighbors(jump_center)[i]
         IN  IF /\ ~Contains(traversed_jump_centers, jump_neighbor)
                /\ IsSomePlayer(get(b, neighbor))
                /\ get(b, jump_neighbor) = Empty
             THEN IF jump_neighbor = end_coord
                  THEN [found |-> TRUE, new |-> new_jump_centers]
                  ELSE ExpandCenter(b, jump_center, i + 1, traversed_jump_centers,
                                    end_coord, Append(new_jump_centers, jump_neighbor))
             ELSE ExpandCenter(b, jump_center, i + 1, traversed_jump_centers,
                               end_coord, new_jump_centers)

\* board.rs:301-318, the for loop over jump_centers from index k
RECURSIVE ExpandLayer(_, _, _, _, _, _)
ExpandLayer(b, jump_centers, k, traversed_jump_centers, end_coord, new_jump_centers) ==
    IF k > Len(jump_centers) THEN [found |-> FALSE, new |-> new_jump_centers]
    ELSE LET r == ExpandCenter(b, jump_centers[k], 1, traversed_jump_centers,
                               end_coord, new_jump_centers)
         IN  IF r.found THEN r
             ELSE ExpandLayer(b, jump_centers, k + 1, traversed_jump_centers,
                              end_coord, r.new)

\* iterations of the while loop after which the model gives the search up as
\* never ending (no cell is a jump centre in more than two layers, so a
\* search that ends does so long before on the boards checked here)
SearchFuel == 24

\* board.rs:299-322, the while loop: done is FALSE when it did not end within
\* fuel iterations, layers counts the iterations made, centers lists every
\* coordinate that was put in jump_centers or new_jump_centers, start first
RECURSIVE JumpSearch(_, _, _, _, _, _)
JumpSearch(b, jump_centers, traversed_jump_centers, end_coord, fuel, layers) ==
    IF jump_centers = <<>>
    THEN [done |-> TRUE, ret |-> FALSE, layers |-> layers,
          centers |-> traversed_jump_centers]
    ELSE IF fuel = 0
    THEN [done |-> FALSE, ret |-> FALSE, layers |-> layers,
          centers |-> traversed_jump_centers \o jump_centers]
    ELSE LET r == ExpandLayer(b, jump_centers, 1, traversed_jump_centers, end_coord, <<>>)
         IN  IF r.found
             THEN [done |-> TRUE, ret |-> TRUE, layers |-> layers + 1,
                   centers |-> traversed_jump_centers \o jump_centers \o r.new]
             ELSE JumpSearch(b, NextJumpCenters(jump_centers, r.new),
                             TraversedAfter(traversed_jump_centers, jump_centers),
                             end_coord, fuel - 1, layers + 1)

\* board.rs:286-287
MoveRejectedIgnoresEnd(b, start_coord, end_coord) ==
    LET start_spot == get(b, start_coord)
        end_spot == get(b, end_coord)
    IN  (start_spot = None \/ end_spot = None) \/ is_empty(start_spot)

MoveRejected(b, start_coord, end_coord) ==
    LET start_spot == get(b, start_coord)
        end_spot == get(b, end_coord)
    IN  (start_spot = None \/ end_spot = None)
        \/ (is_empty(start_spot) \/ is_full(end_spot))

validate_move(b, start_coord, end_coord) ==
    IF MoveRejected(b, start_coord, end_coord)
    THEN [done |-> TRUE, ret |-> FALSE, layers |-> 0, centers |-> <<>>]
    ELSE IF Contains(neighbors(start_coord), end_coord)
    THEN [done |-> TRUE, ret |-> TRUE, layers |-> 0, centers |-> <<>>]
    ELSE JumpSearch(b, <<start_coord>>, <<>>, end_coord, SearchFuel, 0)

\* the map make_move leaves when validate_move answered is_move_valid
MakeMoveCellsUnconditional(b, start_coord, end_coord, is_move_valid) ==
    swap(b, start_coord, end_coord)

make_move_cells(b, start_coord, end_coord, is_move_valid) ==
    IF is_move_valid THEN swap(b, start_coord, end_coord) ELSE b

\* only a piece of the side on turn is moved
MakeMoveOnTurnOnly(self, start_coord, end_coord) ==
    LET r == validate_move(self.board, start_coord, end_coord)
        is_move_valid == r.ret /\ get(self.board, start_coord) = self.turn
    IN  [done |-> r.done, ret |-> is_move_valid, layers |-> r.layers,
         centers |-> r.centers,
         board |-> IF r.done
                   THEN make_move_cells(self.board, start_coord, end_coord, is_move_valid)
                   ELSE self.board,
         players |-> self.players, turn |-> self.turn]

\* Board::make_move on the Board self = [board, players, turn]: what it
\* returns and the Board it leaves
make_move(self, start_coord, end_coord) ==
    LET r == validate_move(self.board, start_coord, end_coord)
    IN  [done |-> r.done, ret |-> r.ret, layers |-> r.layers,
         centers |-> r.centers,
         board |-> IF r.done
                   THEN make_move_cells(self.board, start_coord, end_coord, r.ret)
                   ELSE self.board,
         players |-> self.players, turn |-> self.turn]

-----------------------------------------------------------------------------
(* Board::start_next_turn                                                  *)

LoopFuel == 12

\* board.rs:327
FirstNextTurnStays(t) == t

FirstNextTurn(t) == forward(t)

\* board.rs:328-330: applied counts the calls of forward, done is FALSE when
\* the loop did not end within fuel iterations
RECURSIVE TurnLoop(_, _, _, _)
TurnLoop(ps, next_turn, applied, fuel) ==
    IF next_turn \in ps THEN [done |-> TRUE, turn |-> next_turn, applied |-> applied]
    ELSE IF fuel = 0 THEN [done |-> FALSE, turn |-> next_turn, applied |-> applied]
    ELSE TurnLoop(ps, forward(next_turn), applied + 1, fuel - 1)

start_next_turn(ps, t) == TurnLoop(ps, FirstNextTurn(t), 1, LoopFuel)

-----------------------------------------------------------------------------
(* DragNDrop (gui/dragndrop.rs), as functions of the struct                *)

\* Option<Point>::None; a Point is the pair <<x, y>>
NoPoint == <<>>

\* derive(Default), which Input::new and reset use
DragNDropDefault ==
    [drag_started |-> FALSE, start_pos |-> NoPoint, current_pos |-> NoPoint,
     is_dropped |-> FALSE]

reset(self) == DragNDropDefault

\* nalgebra::distance(start_pos, point) > 3.0
DragThreshold == 3
FarApart(p, q) ==
    (p[1] - q[1]) * (p[1] - q[1]) + (p[2] - q[2]) * (p[2] - q[2])
        > DragThreshold * DragThreshold

\* the match of update on (drag_started, start_pos.is_some(),
\* current_pos.is_some()) falls to its last arm, unreachable!()
InvalidCombination(self) ==
    LET started == self.drag_started
        has_start == self.start_pos # NoPoint
        has_current == self.current_pos # NoPoint
    IN  ~(\/ (~started /\ ~has_start /\ ~has_current)
          \/ (started /\ ~has_start /\ ~has_current)
          \/ (started /\ has_start))

\* update, mouse::Event::CursorMoved, in the arms that return
update_cursor_moved(self, point) ==
    IF ~self.drag_started /\ self.start_pos = NoPoint /\ self.current_pos = NoPoint
    THEN self
    ELSE IF self.drag_started /\ self.start_pos = NoPoint /\ self.current_pos = NoPoint
    THEN [self EXCEPT !.start_pos = point]
    ELSE IF FarApart(self.start_pos, point)
    THEN [self EXCEPT !.current_pos = point]
    ELSE self

\* update, the left button: ButtonState::Pressed
update_pressed(self) == [self EXCEPT !.drag_started = TRUE]

\* every release is a drop
ReleasedAlwaysDrops(self) == [self EXCEPT !.is_dropped = TRUE]

\* update, the left button: ButtonState::Released
update_released(self) ==
    IF self.current_pos = NoPoint THEN reset(self)
    ELSE [self EXCEPT !.is_dropped = TRUE]

clear(self) == IF self.is_dropped THEN reset(self) ELSE self

-----------------------------------------------------------------------------
(* The calls, as actions on the Board                                      *)

\* Option<HexCoord>::None
NoCoord == <<>>

\* Option<LiftedPiece>::None
NoLiftedPiece == [some |-> FALSE, piece_coord |-> NoCoord, dropped_coord |-> NoCoord]

\* op: the handler; calls: the Board functions it ran; start, end, side,
\* checked: its arguments; ret: what make_move returned; layers: iterations of
\* the search; applied: calls of forward; from: the turn before the call;
\* count: the players_count Board::new was given; prev, removed: the call
\* made before a setup_players call, and the side it removed from players;
\* centers: the jump centres of the search of make_move
NoCall == [op |-> "new", calls |-> {}, start |-> NoCoord, end |-> NoCoord,
           side |-> NoSide, checked |-> FALSE, ret |-> FALSE, layers |-> 0,
           applied |-> 0, from |-> NoSide, count |-> 0, prev |-> "",
           removed |-> NoSide, centers |-> <<>>]

\* Board::new(players_count), then BoardGame::new's fields
New(players_count) ==
    LET ps == gen_players(players_count)
    IN  /\ players = ps
        /\ board = setup_cells(gen_board, ps)
        /\ turn = MinSide(ps)
        /\ phase = "Start"
        /\ lifted_piece = NoLiftedPiece
        /\ input = DragNDropDefault
        /\ pc = "running"
        /\ last = [NoCall EXCEPT !.calls = {"setup_players"}, !.count = players_count]
        /\ nops = 0
        /\ nmoves = 0

PutPlayer(coord, player) ==
    /\ pc = "running"
    /\ board' = put_player(board, coord, player)
    /\ last' = [NoCall EXCEPT !.op = "put_player", !.calls = {"put_player"},
                              !.start = coord, !.side = player]
    /\ nops' = nops + 1
    /\ UNCHANGED <<input, players, turn, phase, lifted_piece, pc, nmoves>>

RemovePlayer(coord) ==
    /\ pc = "running"
    /\ board' = remove_player(board, coord)
    /\ last' = [NoCall EXCEPT !.op = "remove_player", !.calls = {"remove_player"},
                              !.start = coord]
    /\ nops' = nops + 1
    /\ UNCHANGED <<input, players, turn, phase, lifted_piece, pc, nmoves>>

MakeMove(start_coord, end_coord) ==
    /\ pc = "running"
    /\ LET r == make_move([board |-> board, players |-> players, turn |-> turn],
                          start_coord, end_coord)
       IN  /\ pc' = IF r.done THEN "running" ELSE "looping"
           /\ board' = r.board
           /\ players' = r.players
           /\ turn' = r.turn
           /\ last' = [NoCall EXCEPT !.op = "make_move", !.calls = {"make_move"},
                                     !.start = start_coord, !.end = end_coord,
                                     !.ret = r.ret, !.layers = r.layers,
                                     !.centers = r.centers]
    /\ nops' = nops + 1
    /\ nmoves' = nmoves + 1
    /\ UNCHANGED <<input, phase, lifted_piece>>

\* Board::swap, called on its own
Swap(coord1, coord2) ==
    /\ pc = "running"
    /\ board' = swap(board, coord1, coord2)
    /\ last' = [NoCall EXCEPT !.op = "swap", !.calls = {"swap"},
                              !.start = coord1, !.end = coord2]
    /\ nops' = nops + 1
    /\ UNCHANGED <<input, players, turn, phase, lifted_piece, pc, nmoves>>

\* Board::setup_players: the loops run, then the unwrap panics when players
\* is empty
SetupPlayers ==
    /\ pc = "running"
    /\ board' = setup_cells(board, players)
    /\ LET t == setup_turn(players, turn)
       IN  IF t = NoSide
           THEN pc' = "panicked" /\ turn' = turn
           ELSE pc' = "running" /\ turn' = t
    /\ last' = [NoCall EXCEPT !.op = "setup_players", !.calls = {"setup_players"},
                              !.from = turn, !.prev = last.op,
                              !.removed = IF last.op = "player_toggle" /\ ~last.checked
                                          THEN last.side ELSE NoSide]
    /\ nops' = nops + 1
    /\ UNCHANGED <<input, players, phase, lifted_piece, nmoves>>

\* Board::start_next_turn: the loop never ends when no side is found
StartNextTurn ==
    /\ pc = "running"
    /\ LET r == start_next_turn(players, turn)
       IN  /\ pc' = IF r.done THEN "running" ELSE "looping"
           /\ turn' = IF r.done THEN r.turn ELSE turn
           /\ last' = [NoCall EXCEPT !.op = "start_next_turn",
                                     !.calls = {"start_next_turn"},
                                     !.applied = r.applied, !.from = turn]
    /\ nops' = nops + 1
    /\ UNCHANGED <<input, board, players, phase, lifted_piece, nmoves>>

\* gui.rs:392-398, the only writes to Board.players after Board::new
toggle_players(ps, side, checked) ==
    IF checked THEN ps \cup {side} ELSE ps \ {side}

\* the same writes, made by any caller of the Board
PlayerToggle(side, checked) ==
    /\ pc = "running"
    /\ players' = toggle_players(players, side, checked)
    /\ last' = [NoCall EXCEPT !.op = "player_toggle", !.side = side,
                              !.checked = checked]
    /\ nops' = nops + 1
    /\ UNCHANGED <<input, board, turn, phase, lifted_piece, pc, nmoves>>

-----------------------------------------------------------------------------
(* Spec: any caller of the Board, a bounded number of calls                *)

\* calls in one run
MaxOps == 3

\* Board::new is called with the four supported counts and an unsupported one
NewCounts == {2, 3, 4, 6, 5}

\* a cell of A's starting zone, the cell in front of it, and a coordinate
\* that is no cell
EditCoords == {<<4, -5>>, <<4, -4>>, <<6, 0>>}

EditSides == {"D"}

ToggleSides == Sides

Init == \E players_count \in NewCounts : New(players_count)

ApiPut ==
    \E coord \in EditCoords, player \in EditSides :
        nops < MaxOps /\ PutPlayer(coord, player)

ApiRemove == \E coord \in EditCoords : nops < MaxOps /\ RemovePlayer(coord)

ApiSwap ==
    \E coord1 \in EditCoords, coord2 \in EditCoords :
        nops < MaxOps /\ Swap(coord1, coord2)

ApiMove ==
    \E start_coord \in EditCoords, end_coord \in EditCoords :
        nops < MaxOps /\ MakeMove(start_coord, end_coord)

ApiSetup == nops < MaxOps /\ SetupPlayers

ApiNextTurn == nops < MaxOps /\ StartNextTurn

ApiToggle ==
    \E side \in ToggleSides, checked \in BOOLEAN :
        nops < MaxOps /\ PlayerToggle(side, checked)

Next ==
    \/ ApiPut
    \/ ApiRemove
    \/ ApiSwap
    \/ ApiMove
    \/ ApiSetup
    \/ ApiNextTurn
    \/ ApiToggle

Spec == Init /\ [][Next]_vars

-----------------------------------------------------------------------------
(* SpecMove: boards arranged with put_player, then one make_move           *)

\* the player count the boards are created with: all six starting zones full
MoveCounts == {6}

\* cells of the middle of the board that put_player fills, in the order
\* in which the arrangements are built
ArenaSeq == << <<-2, 0>>, <<-1, 0>>, <<0, 0>>, <<1, 0>>, <<2, 0>>, <<3, 0>>,
               <<2, -1>>, <<2, -2>>, <<1, -1>> >>

Arena == SeqToSet(ArenaSeq)

\* pieces put_player may place in the Arena
MaxArenaPieces == 5

\* the coordinates make_move is called with: the Arena, cells next to it,
\* a cell of a starting zone and the cell in front of it, and two
\* coordinates that are no cells
MoveCoords == Arena \cup {<<4, 0>>, <<0, -1>>, <<5, 0>>, <<6, 0>>, <<4, -5>>, <<4, -4>>}

ArenaPieces == Cardinality({c \in Arena : is_full(get(board, c))})

\* the pieces put are of sides A and B in turn
ArrangedSide == IF ArenaPieces % 2 = 0 THEN "A" ELSE "B"

InitMove == \E players_count \in MoveCounts : New(players_count)

\* every arrangement is built once: a piece is put only behind the pieces
\* that are already there
ArrangeStep ==
    \E i \in 1..Len(ArenaSeq) :
        /\ last.op # "make_move"
        /\ ArenaPieces < MaxArenaPieces
        /\ \A j \in i..Len(ArenaSeq) : is_empty(get(board, ArenaSeq[j]))
        /\ PutPlayer(ArenaSeq[i], ArrangedSide)

MoveStep ==
    \E start_coord \in MoveCoords, end_coord \in MoveCoords :
        /\ last.op # "make_move"
        /\ MakeMove(start_coord, end_coord)

NextMove == ArrangeStep \/ MoveStep

SpecMove == InitMove /\ [][NextMove]_vars

-----------------------------------------------------------------------------
(* SpecPlay: Board::new, then make_move and start_next_turn only           *)

\* the supported player counts
PlayCounts == {2, 3, 4, 6}

\* calls in one run
MaxPlayOps == 3

\* two cells of A's starting zone, the two cells in front of them, a cell of
\* D's starting zone, the cell in front of it, and a coordinate that is no
\* cell
PlayCoords == {<<4, -6>>, <<4, -5>>, <<4, -4>>, <<4, -3>>, <<-4, 5>>, <<-4, 4>>, <<6, 0>>}

InitPlay == \E players_count \in PlayCounts : New(players_count)

PlayMove ==
    \E start_coord \in PlayCoords, end_coord \in PlayCoords :
        nops < MaxPlayOps /\ MakeMove(start_coord, end_coord)

PlayNextTurn == nops < MaxPlayOps /\ StartNextTurn

NextPlay == PlayMove \/ PlayNextTurn

SpecPlay == InitPlay /\ [][NextPlay]_vars

-----------------------------------------------------------------------------
(* SpecSetup: make_move, start_next_turn and setup_players in any order,   *)
(* and the removal of one side followed at once by setup_players           *)

\* calls in one run
MaxSetupOps == 3

\* two cells of A's starting zone and the two cells in front of them
SetupCoords == {<<4, -6>>, <<4, -5>>, <<4, -4>>, <<4, -3>>}

InitSetup == \E players_count \in PlayCounts : New(players_count)

SetupMove ==
    \E start_coord \in SetupCoords, end_coord \in SetupCoords :
        /\ last.op # "player_toggle"
        /\ nops < MaxSetupOps
        /\ MakeMove(start_coord, end_coord)

SetupNextTurn ==
    /\ last.op # "player_toggle"
    /\ nops < MaxSetupOps
    /\ StartNextTurn

SetupRemove ==
    \E side \in players :
        /\ last.op # "player_toggle"
        /\ nops < MaxSetupOps
        /\ PlayerToggle(side, FALSE)

SetupAgain == nops < MaxSetupOps /\ SetupPlayers

NextSetup == SetupMove \/ SetupNextTurn \/ SetupRemove \/ SetupAgain

SpecSetup == InitSetup /\ [][NextSetup]_vars

-----------------------------------------------------------------------------
(* BoardGame: the handlers of gui.rs                                       *)

Unreachable == "unreachable"

\* Phase::next, Phase::previous
phase_next(p) ==
    CASE p = "Start" -> "GameSetup"
      [] p = "GameSetup" -> "GamePlay"
      [] p = "GamePlay" -> Unreachable

phase_previous(p) ==
    CASE p = "Start" -> Unreachable
      [] p = "GameSetup" -> "Start"
      [] p = "GamePlay" -> "GameSetup"

\* the messages the widgets of layout can send in phase p
Offered(p) ==
    CASE p = "Start" -> {"Next"}
      [] p = "GameSetup" -> {"Next", "Previous", "PlayerToggle"}
      [] p = "GamePlay" -> {"Previous"}

\* react, Message::Next
ReactNext ==
    /\ pc = "running"
    /\ LET setup == phase = "GameSetup"
           t == IF setup THEN setup_turn(players, turn) ELSE turn
           np == phase_next(phase)
       IN  /\ board' = IF setup THEN setup_cells(board, players) ELSE board
           /\ IF t = NoSide \/ np = Unreachable
              THEN pc' = "panicked" /\ turn' = turn /\ phase' = phase
              ELSE pc' = "running" /\ turn' = t /\ phase' = np
           /\ last' = IF setup
                      THEN [NoCall EXCEPT !.op = "react_next",
                                          !.calls = {"setup_players"}, !.from = turn]
                      ELSE [NoCall EXCEPT !.op = "react_next"]
    /\ UNCHANGED <<input, players, lifted_piece, nops, nmoves>>

\* react, Message::Previous
ReactPrevious ==
    /\ pc = "running"
    /\ LET np == phase_previous(phase)
       IN  IF np = Unreachable
           THEN pc' = "panicked" /\ phase' = phase
           ELSE pc' = "running" /\ phase' = np
    /\ last' = [NoCall EXCEPT !.op = "react_previous"]
    /\ UNCHANGED <<input, board, players, turn, lifted_piece, nops, nmoves>>

\* react, Message::PlayerToggle(side, checked)
ReactPlayerToggle(side, checked) ==
    /\ pc = "running"
    /\ players' = toggle_players(players, side, checked)
    /\ last' = [NoCall EXCEPT !.op = "player_toggle", !.side = side,
                              !.checked = checked]
    /\ UNCHANGED <<input, board, turn, phase, lifted_piece, pc, nops, nmoves>>

\* LiftedPiece::new and drop_piece.  current_pos is left out: it is the point
\* the floating circle is drawn at, and drop_piece reads it in the very call
\* of interact that wrote it, so dropped_coord is the coordinate of the drag
\* position of that call
LiftedPieceNew(coord) == [some |-> TRUE, piece_coord |-> coord, dropped_coord |-> NoCoord]

\* interact with input.drag_status() = Some: current_coord and start_coord
\* are the coordinates from_point gives for the two positions of the drag
Interact(current_coord, start_coord, is_dropped) ==
    /\ pc = "running"
    /\ lifted_piece' =
          IF lifted_piece.some
          THEN IF is_dropped
               THEN [lifted_piece EXCEPT !.dropped_coord = current_coord]
               ELSE lifted_piece
          ELSE IF get(board, start_coord) # None /\ is_full(get(board, start_coord))
               THEN LiftedPieceNew(start_coord)
               ELSE lifted_piece
    /\ last' = [NoCall EXCEPT !.op = "interact"]
    /\ UNCHANGED <<input, board, players, turn, phase, pc, nops, nmoves>>

\* gui.rs:282-287, if make_move(..) { start_next_turn() }
TurnAdvancesAlways(is_move_valid) == TRUE

TurnAdvances(is_move_valid) == is_move_valid

\* update: the drop of the lifted piece is a make_move, and a start_next_turn
\* when the move was made
DropPending ==
    /\ phase = "GamePlay"
    /\ lifted_piece.some
    /\ lifted_piece.dropped_coord # NoCoord

Update ==
    /\ pc = "running"
    /\ IF ~DropPending
       THEN /\ last' = [NoCall EXCEPT !.op = "update"]
            /\ UNCHANGED <<board, turn, lifted_piece, pc, nmoves>>
       ELSE LET start_coord == lifted_piece.piece_coord
                end_coord == lifted_piece.dropped_coord
                v == validate_move(board, start_coord, end_coord)
                moved == v.done /\ TurnAdvances(v.ret)
                n == start_next_turn(players, turn)
            IN  /\ board' = IF v.done
                            THEN make_move_cells(board, start_coord, end_coord, v.ret)
                            ELSE board
                /\ turn' = IF moved /\ n.done THEN n.turn ELSE turn
                /\ pc' = IF ~v.done \/ (moved /\ ~n.done) THEN "looping" ELSE "running"
                /\ lifted_piece' = IF pc' = "running" THEN NoLiftedPiece ELSE lifted_piece
                /\ last' = [NoCall EXCEPT
                              !.op = "update",
                              !.calls = IF moved THEN {"make_move", "start_next_turn"}
                                                 ELSE {"make_move"},
                              !.start = start_coord, !.end = end_coord,
                              !.ret = v.ret, !.layers = v.layers,
                              !.applied = IF moved THEN n.applied ELSE 0,
                              !.from = turn]
                /\ nmoves' = nmoves + 1
    /\ UNCHANGED <<input, players, phase, nops>>

\* draw: in GamePlay with a lifted piece, get(piece_coord).unwrap() and the
\* match whose other arm is unreachable!(); nothing of the state is written
Draw ==
    /\ pc = "running"
    /\ pc' = IF phase # "GamePlay" \/ ~lifted_piece.some THEN "running"
             ELSE LET spot == get(board, lifted_piece.piece_coord)
                  IN  IF spot = None THEN "panicked"
                      ELSE IF IsSomePlayer(spot) THEN "running"
                      ELSE "unreachable"
    /\ UNCHANGED <<input, board, players, turn, phase, lifted_piece, last, nops, nmoves>>

\* DragNDrop::update with a CursorMoved event
CursorMoved(point) ==
    /\ pc = "running"
    /\ IF InvalidCombination(input)
       THEN pc' = "unreachable" /\ input' = input
       ELSE pc' = "running" /\ input' = update_cursor_moved(input, point)
    /\ last' = [NoCall EXCEPT !.op = "cursor_moved"]
    /\ UNCHANGED <<board, players, turn, phase, lifted_piece, nops, nmoves>>

\* DragNDrop::update with the left button pressed
LeftPressed ==
    /\ pc = "running"
    /\ input' = update_pressed(input)
    /\ last' = [NoCall EXCEPT !.op = "pressed"]
    /\ UNCHANGED <<board, players, turn, phase, lifted_piece, pc, nops, nmoves>>

\* DragNDrop::update with the left button released
LeftReleased ==
    /\ pc = "running"
    /\ input' = update_released(input)
    /\ last' = [NoCall EXCEPT !.op = "released"]
    /\ UNCHANGED <<board, players, turn, phase, lifted_piece, pc, nops, nmoves>>

\* DragNDrop::clear
Clear ==
    /\ pc = "running"
    /\ input' = clear(input)
    /\ last' = [NoCall EXCEPT !.op = "clear"]
    /\ UNCHANGED <<board, players, turn, phase, lifted_piece, pc, nops, nmoves>>

-----------------------------------------------------------------------------
(* SpecGui: BoardGame::new, then the handlers in any order                 *)

\* BoardGame::new calls Board::new(3)
GuiPlayersCount == 3

\* drops that update turns into make_move calls in one run
MaxGuiMoves == 1

\* the sides whose checkbox is clicked
GuiToggleSides == {"A", "C", "E"}

\* the coordinates under the cursor: a piece of A's starting zone, the piece
\* in front of it, the Empty cell in front of that, and a coordinate that is
\* no cell
GuiCoords == {<<4, -6>>, <<4, -5>>, <<4, -4>>, <<6, 0>>}

InitGui == New(GuiPlayersCount)

GuiNext == "Next" \in Offered(phase) /\ ReactNext

GuiPrevious == "Previous" \in Offered(phase) /\ ReactPrevious

GuiToggle ==
    \E side \in GuiToggleSides, checked \in BOOLEAN :
        "PlayerToggle" \in Offered(phase) /\ ReactPlayerToggle(side, checked)

GuiInteract ==
    \E current_coord \in GuiCoords, start_coord \in GuiCoords, is_dropped \in BOOLEAN :
        Interact(current_coord, start_coord, is_dropped)

GuiUpdate == (DropPending => nmoves < MaxGuiMoves) /\ Update

GuiDraw == Draw

NextGui == GuiNext \/ GuiPrevious \/ GuiToggle \/ GuiInteract \/ GuiUpdate \/ GuiDraw

SpecGui == InitGui /\ [][NextGui]_vars

-----------------------------------------------------------------------------
(* SpecInput: the mouse events and clear in any order                      *)

\* the positions of the cursor: a grid on which pairs of points are less
\* than, exactly and more than the drag threshold apart
Points == (0..3) \X (0..3)

InitInput == New(GuiPlayersCount)

InputMoved == \E point \in Points : CursorMoved(point)

InputPressed == LeftPressed

InputReleased == LeftReleased

InputClear == Clear

NextInput == InputMoved \/ InputPressed \/ InputReleased \/ InputClear

SpecInput == InitInput /\ [][NextInput]_vars

-----------------------------------------------------------------------------
(* Move legality, stated without the search                                *)

\* the landing cells of one hop from c: over an occupied cell next to c,
\* onto the Empty cell behind it
HopsFrom(b, c) ==
    {Add(c, Mul(NEIGHBOR_OFFSETS[i], 2)) : i \in
        {k \in 1..6 : /\ get(b, Add(c, NEIGHBOR_OFFSETS[k])) \in Sides
                      /\ get(b, Add(c, Mul(NEIGHBOR_OFFSETS[k], 2))) = Empty}}

\* the least set that holds `reached` and is closed under hops
RECURSIVE HopClosure(_, _)
HopClosure(b, reached) ==
    LET more == reached \cup UNION {HopsFrom(b, c) : c \in reached}
    IN  IF more = reached THEN reached ELSE HopClosure(b, more)

\* the cells a chain of one or more hops from start ends on
JumpReachable(b, start) == HopClosure(b, HopsFrom(b, start))

IsLegal(b, start, end) ==
    /\ start \in DOMAIN b
    /\ end \in DOMAIN b
    /\ b[start] \in Sides
    /\ b[end] = Empty
    /\ \/ \E i \in 1..6 : end = Add(start, NEIGHBOR_OFFSETS[i])
       \/ end \in JumpReachable(b, start)

MoveReturned == last.op = "make_move" /\ pc = "running"

\* C1: make_move returns true exactly when start and end are cells, start is
\* occupied, end is Empty, and end is a neighbour of start or the end of a
\* chain of one or more hops from start.
C1_MoveLegalIffReachable ==
    [][last'.op = "make_move" /\ pc' = "running"
         => (last'.ret <=> IsLegal(board, last'.start, last'.end))]_vars

\* a move accepted after a search of three layers
C1_Witness == MoveReturned /\ last.ret /\ last.layers >= 3

\* C2: an illegal move returns false and leaves cells, players and turn as
\* they were.
C2_IllegalMoveChangesNothing ==
    [][last'.op = "make_move" /\ ~IsLegal(board, last'.start, last'.end)
         => /\ pc' = "running"
            /\ last'.ret = FALSE
            /\ board' = board
            /\ players' = players
            /\ turn' = turn]_vars

\* a refused move from an occupied cell to an Empty cell that no shift and
\* no chain reaches, the search having taken at least one hop
C2_Witness ==
    /\ MoveReturned /\ ~last.ret /\ last.layers >= 2
    /\ get(board, last.start) \in Sides
    /\ get(board, last.end) = Empty

\* C3: a legal move empties start, puts the piece that stood on start on
\* end, and changes no other cell, nor players, nor turn.
C3_LegalMoveRelocatesOnePiece ==
    [][last'.op = "make_move" /\ last'.ret
         => /\ board[last'.start] \in Sides
            /\ board' = [board EXCEPT ![last'.start] = Empty,
                                      ![last'.end] = board[last'.start]]
            /\ players' = players
            /\ turn' = turn]_vars

\* a piece moved by a chain of at least two hops
C3_Witness ==
    /\ MoveReturned /\ last.ret /\ last.layers >= 2
    /\ get(board, last.start) = Empty
    /\ get(board, last.end) \in Sides

\* the arrangement of C4 on the cells that exist: <<5, 0>> and <<6, 0>> are no
\* cells, put_player and remove_player leave them absent
ChainArranged(b) ==
    /\ get(b, <<0, 0>>) \in Sides
    /\ get(b, <<1, 0>>) \in Sides
    /\ get(b, <<3, 0>>) \in Sides
    /\ get(b, <<2, 0>>) = Empty
    /\ get(b, <<4, 0>>) = Empty
    /\ get(put_player(b, <<5, 0>>, "A"), <<5, 0>>) = get(b, <<5, 0>>)
    /\ get(remove_player(b, <<6, 0>>), <<6, 0>>) = get(b, <<6, 0>>)

\* C4 as claimed: with the pieces arranged along the row, a single
\* make_move(<<0, 0>>, <<6, 0>>) returns true.
C4_ChainToSixZero ==
    [][ChainArranged(board) /\ last'.op = "make_move"
          /\ last'.start = <<0, 0>> /\ last'.end = <<6, 0>>
         => last'.ret]_vars

\* the chain of three hops that fits in the row: from <<-2, 0>> over
\* <<-1, 0>>, <<1, 0>> and <<3, 0>>
ShiftedChainArranged(b) ==
    /\ get(b, <<-2, 0>>) \in Sides
    /\ get(b, <<-1, 0>>) \in Sides
    /\ get(b, <<1, 0>>) \in Sides
    /\ get(b, <<3, 0>>) \in Sides
    /\ get(b, <<0, 0>>) = Empty
    /\ get(b, <<2, 0>>) = Empty
    /\ get(b, <<4, 0>>) = Empty

\* C4 amended: <<5, 0>> and <<6, 0>> are not cells of the board, so a move to
\* <<6, 0>> returns false; the chain <<-2, 0>> -> <<0, 0>> -> <<2, 0>> ->
\* <<4, 0>> of three hops along the same row is accepted in one call.
C4_ChainAlongRow ==
    [][last'.op = "make_move"
         => /\ (last'.end \in {<<5, 0>>, <<6, 0>>} => ~last'.ret)
            /\ (ShiftedChainArranged(board) /\ last'.start = <<-2, 0>>
                  /\ last'.end = <<4, 0>> => last'.ret)]_vars

C4_Witness ==
    /\ MoveReturned /\ last.ret /\ last.layers = 3
    /\ last.start = <<-2, 0>> /\ last.end = <<4, 0>>
    /\ get(board, <<4, 0>>) \in Sides

\* C5: the search of validate_move ends for every board and every pair of
\* coordinates.
C5_SearchTerminates == last.op = "make_move" => pc = "running"

\* a search that went on after a layer whose centres reach each other: the
\* start is exhausted after four layers
C5_Witness == MoveReturned /\ ~last.ret /\ last.layers = 4

-----------------------------------------------------------------------------
(* The key set, the turn and the players                                   *)

\* the key set is the one gen_board made, 121 coordinates, and a coordinate
\* outside reads as absent
KeySetIsBoard(b) ==
    /\ DOMAIN b = DOMAIN gen_board
    /\ Cardinality(DOMAIN b) = 121
    /\ \A coord \in EditCoords \ DOMAIN gen_board : get(b, coord) = None

\* C6: every state has the key set gen_board made, the same 121 coordinates
\* for every player count; put_player, remove_player and swap given a
\* coordinate outside it leave the map unchanged, and get returns absent.
C6_KeySetFixed ==
    [][/\ KeySetIsBoard(board)
       /\ KeySetIsBoard(board')
       /\ (/\ last'.op \in {"put_player", "remove_player", "swap"}
           /\ (last'.start \notin DOMAIN gen_board
                 \/ (last'.op = "swap" /\ last'.end \notin DOMAIN gen_board))
           => board' = board)]_vars

\* a write to a coordinate that is no cell, made after other calls
C6_Witness ==
    /\ last.op \in {"put_player", "remove_player", "swap"}
    /\ last.start \notin DOMAIN gen_board
    /\ nops >= 2

\* C7: turn is a member of players in every state after the first
\* setup_players (Board::new runs it), whatever calls and whatever insertions
\* and removals of sides follow.
C7_TurnAlwaysInPlayers == pc = "running" => turn \in players

\* the side k places after t in the order A, B, C, D, E, F, A, ...
SideAfter(t, k) == AllSides[((SideOrd(t) - 1 + k) % 6) + 1]

\* the first side strictly after t, in that order, that is a member of ps
FirstActiveAfter(t, ps) ==
    LET k == CHOOSE k \in 1..6 :
                 /\ SideAfter(t, k) \in ps
                 /\ \A j \in 1..(k - 1) : SideAfter(t, j) \notin ps
    IN  SideAfter(t, k)

\* the turns of n consecutive calls of start_next_turn from turn t
RECURSIVE TurnsOf(_, _, _)
TurnsOf(ps, t, n) ==
    IF n = 0 THEN <<>>
    ELSE LET next == start_next_turn(ps, t).turn
         IN  <<next>> \o TurnsOf(ps, next, n - 1)

\* |ps| consecutive calls give every member of ps the turn once, no other
\* side, and end on t
FullCycle(ps, t) ==
    LET turns == TurnsOf(ps, t, Cardinality(ps))
    IN  /\ SeqToSet(turns) = ps
        /\ \A i, j \in 1..Len(turns) : turns[i] = turns[j] => i = j
        /\ turns[Len(turns)] = t

\* C8: start_next_turn sets turn to the first member of players strictly
\* after the current turn in the order A, B, C, D, E, F, A; from a state with
\* turn in players, |players| consecutive calls give every active side the
\* turn once and return it to where it was.
C8_NextTurnIsFirstActiveAfter ==
    [][/\ (last'.op = "start_next_turn" /\ pc' = "running"
             => /\ turn' = FirstActiveAfter(turn, players)
                /\ players' = players)
       /\ (turn \in players => FullCycle(players, turn))]_vars

\* with players = {A, D}: a call gave D the turn, the next gave it back to A
C8_Witness ==
    /\ last.op = "start_next_turn" /\ pc = "running"
    /\ players = {"A", "D"}
    /\ last.from = "D" /\ turn = "A"
    /\ nops >= 2

\* C9 as claimed: players is non-empty whenever setup_players or
\* start_next_turn runs, in every state the messages Next, Previous and
\* PlayerToggle lead to, and so no handler panics.
C9_PlayersNonEmptyWhenUsed ==
    /\ (last.calls \cap {"setup_players", "start_next_turn"} # {} => players # {})
    /\ pc # "panicked"

\* C10: every start_next_turn of a run of the game ends after at most 6
\* calls of forward, the turn it starts from being an active side.
C10_NextTurnWithinSixForwards ==
    "start_next_turn" \in last.calls
        => /\ pc = "running"
           /\ last.applied <= 6
           /\ last.from \in players

\* the only active side gets the turn back after six calls of forward
C10_Witness ==
    /\ "start_next_turn" \in last.calls
    /\ pc = "running"
    /\ last.applied = 6
    /\ turn = last.from

-----------------------------------------------------------------------------
(* Starting positions                                                      *)

\* the players Board::new is to give for a count
ExpectedPlayers(n) ==
    CASE n = 2 -> {"A", "D"}
      [] n = 3 -> {"A", "C", "E"}
      [] n = 4 -> {"A", "B", "D", "E"}
      [] n = 6 -> {"A", "B", "C", "D", "E", "F"}
      [] OTHER -> {"A", "D"}

\* the first of A, B, C, D, E, F that is a member of ps
LowestSide(ps) ==
    IF "A" \in ps THEN "A" ELSE IF "B" \in ps THEN "B" ELSE IF "C" \in ps THEN "C"
    ELSE IF "D" \in ps THEN "D" ELSE IF "E" \in ps THEN "E" ELSE "F"

\* the cells of b that hold spot
CellsOf(b, spot) == {c \in DOMAIN b : b[c] = spot}

\* the ten starting cells of a side
Zone(side) == SeqToSet(player_tip(side))

\* C11: Board::new(n) gives players {A,D}, {A,C,E}, {A,B,D,E}, all six for
\* n = 2, 3, 4, 6 and {A,D} for any other n; turn is the lowest member of
\* players, also after every later setup_players; after Board::new each
\* active side holds exactly its 10 starting cells and the other
\* 121 - 10 * |players| cells are Empty.
C11_NewSeedsPlayersAndTurn ==
    /\ last.op = "new"
         => /\ players = ExpectedPlayers(last.count)
            /\ turn = LowestSide(players)
            /\ \A s \in Sides :
                  /\ CellsOf(board, s) = IF s \in players THEN Zone(s) ELSE {}
                  /\ Cardinality(CellsOf(board, s)) = IF s \in players THEN 10 ELSE 0
            /\ Cardinality(CellsOf(board, Empty)) = 121 - 10 * Cardinality(players)
    /\ last.op = "setup_players" /\ pc = "running" => turn = LowestSide(players)

\* a later setup_players moved the turn to the lowest member of the toggled
\* players
C11_Witness ==
    /\ last.op = "setup_players" /\ pc = "running"
    /\ last.from # turn
    /\ turn = LowestSide(players)
    /\ nops >= 2

\* the starting position of a players set: every active side on its ten
\* starting cells, every other cell Empty
StartingPosition(ps) ==
    [c \in DOMAIN gen_board |->
        IF \E s \in ps : c \in Zone(s) THEN CHOOSE s \in ps : c \in Zone(s)
        ELSE Empty]

\* C12: after setup_players returns, from any state of the game (moves made,
\* sides toggled), the board is the starting position of the current players:
\* no piece of an inactive side and no extra piece of an active side remains.
C12_SetupReseedsStartingPosition ==
    "setup_players" \in last.calls /\ pc = "running"
        => board = StartingPosition(players)

-----------------------------------------------------------------------------
(* The game loop                                                           *)

\* C17: update in GamePlay with a dropped lifted piece calls start_next_turn
\* once when make_move returned true and not at all when it returned false
\* (board and turn then unchanged); lifted_piece becomes None in both cases;
\* in another phase update changes neither board, turn nor lifted_piece.
C17_DropAdvancesTurnIffMoved ==
    [][last'.op = "update" /\ pc' = "running"
         => /\ (phase # "GamePlay"
                  => board' = board /\ turn' = turn /\ lifted_piece' = lifted_piece)
            /\ (DropPending
                  => /\ lifted_piece' = NoLiftedPiece
                     /\ last'.ret = IsLegal(board, lifted_piece.piece_coord,
                                            lifted_piece.dropped_coord)
                     /\ (last'.ret
                           => /\ "start_next_turn" \in last'.calls
                              /\ turn' = FirstActiveAfter(turn, players))
                     /\ (~last'.ret
                           => /\ "start_next_turn" \notin last'.calls
                              /\ board' = board
                              /\ turn' = turn))]_vars

\* a drop that moved a piece and gave the turn to the next active side
C17_Witness ==
    /\ last.op = "update" /\ pc = "running"
    /\ last.ret
    /\ turn # last.from
    /\ ~lifted_piece.some

\* C20: whenever the phase is GamePlay and a piece is lifted, the cell at
\* its piece_coord is on the board and occupied, so the unwrap and the
\* unreachable!() of draw are never hit.
C20_LiftedPieceIsOccupied ==
    /\ (phase = "GamePlay" /\ lifted_piece.some
          => IsSomePlayer(get(board, lifted_piece.piece_coord)))
    /\ pc # "unreachable"

-----------------------------------------------------------------------------
(* Pieces                                                                  *)

\* C18: make_move and start_next_turn never create, destroy or recolour a
\* piece: in every state reached from Board::new(n) by make_move (legal or
\* not) and start_next_turn every active side has exactly 10 pieces on the
\* board and every inactive side has none.
C18_PiecesConserved ==
    \A s \in Sides :
        Cardinality(CellsOf(board, s)) = IF s \in players THEN 10 ELSE 0

\* after two make_move calls, the second a jump, pieces stand outside their
\* starting cells
C18_Witness ==
    /\ last.op = "make_move" /\ last.ret /\ last.layers >= 1
    /\ nmoves >= 2
    /\ Cardinality({c \in DOMAIN board : board[c] # StartingPosition(players)[c]}) >= 3
    /\ pc = "running"

-----------------------------------------------------------------------------
(* setup_players                                                           *)

\* b with the cells of a side's zone Empty
ZoneCleared(b, side) ==
    [c \in DOMAIN b |-> IF c \in Zone(side) THEN Empty ELSE b[c]]

\* every starting zone is as setup_players leaves it for ps: full of its
\* side when the side is active, Empty otherwise
ZonesSeeded(b, ps) ==
    \A s \in Sides : \A c \in Zone(s) : b[c] = IF s \in ps THEN s ELSE Empty

\* C13 as claimed: from any board reached by Board::new, setup_players,
\* make_move and start_next_turn, removing one side from players and calling
\* setup_players sets that side's 10 starting cells to Empty and leaves every
\* other cell unchanged.
C13_RemovalClearsOnlyItsZone ==
    [][last.op = "player_toggle" /\ last'.op = "setup_players"
         => board' = ZoneCleared(board, last.side)]_vars

\* C13 amended: the same, from a board whose starting zones are as
\* setup_players leaves them (as after Board::new or setup_players with no
\* make_move since): the removed side's 10 starting cells become Empty and
\* every other cell is unchanged, whether or not another side remains.
C13_RemovalClearsItsZoneWhenSeeded ==
    [][(/\ last.op = "player_toggle"
        /\ last'.op = "setup_players"
        /\ ZonesSeeded(board, players \cup {last.side}))
         => /\ board' = ZoneCleared(board, last.side)
            /\ \A c \in Zone(last.side) : board[c] = last.side /\ board'[c] = Empty
            /\ Cardinality(Zone(last.side)) = 10]_vars

\* a side was removed from a freshly set up board and setup_players ran
C13_Witness ==
    /\ last.op = "setup_players" /\ last.prev = "player_toggle" /\ pc = "running"
    /\ last.removed \in Sides \ players
    /\ board = StartingPosition(players)
    /\ nmoves = 0

\* C14: setup_players run twice in a row with players unchanged and
\* non-empty leaves cells and turn as they were after the first run.
C14_SetupIdempotent ==
    [][(/\ last.op = "setup_players" /\ pc = "running"
        /\ last'.op = "setup_players")
         => board' = board /\ turn' = turn /\ pc' = "running"]_vars

\* two setup_players calls in a row after a piece had left its starting cell
C14_Witness ==
    /\ last.op = "setup_players" /\ last.prev = "setup_players" /\ pc = "running"
    /\ nmoves >= 1
    /\ board # StartingPosition(players)

\* the loop of setup_players over the sides taken in another order
RECURSIVE SetupInOrder(_, _, _, _)
SetupInOrder(b, ps, order, k) ==
    IF k > Len(order) THEN b
    ELSE LET player == order[k]
             after == SetupTip(b, player, player \in ps, player_tip(player), 1)
         IN  IF DOMAIN after = DOMAIN b
             THEN SetupInOrder(after, ps, order, k + 1)
             ELSE SetupInOrder(after, ps, order, k + 1)

\* the order A..F started at each side, forwards and backwards
Rotated(k) == [i \in 1..Len(AllSides) |-> AllSides[((i + k - 1) % Len(AllSides)) + 1]]
Reversed(seq) == [i \in 1..Len(seq) |-> seq[Len(seq) + 1 - i]]
SetupOrders ==
    {Rotated(k) : k \in 0..(Len(AllSides) - 1)}
        \cup {Reversed(Rotated(k)) : k \in 0..(Len(AllSides) - 1)}

\* the 91 cells of the central triangle of gen_board
CentralTriangle == SeqToSet(triangle_tip_up(<<4, -8>>, 13))

\* C16: each of the six starting zones has 10 distinct coordinates, all cells
\* of the board, and no two zones share a cell; the zones of A, C, E lie in
\* the central triangle and those of B, D, F are the cells outside it; so
\* setup_players gives the same board in whatever order the sides are taken.
C16_ZonesDisjointOrderFree ==
    [][/\ \A s \in Sides :
             /\ Len(player_tip(s)) = 10
             /\ Cardinality(Zone(s)) = 10
             /\ Zone(s) \subseteq DOMAIN board
       /\ \A s, t \in Sides : s # t => Zone(s) \cap Zone(t) = {}
       /\ \A s \in {"A", "C", "E"} : Zone(s) \subseteq CentralTriangle
       /\ \A s \in {"B", "D", "F"} : Zone(s) \cap CentralTriangle = {}
       /\ Zone("B") \cup Zone("D") \cup Zone("F") = DOMAIN board \ CentralTriangle
       /\ (last'.op = "setup_players"
             => \A order \in SetupOrders :
                    SetupInOrder(board, players, order, 1) = board')]_vars

\* setup_players ran on a board with a piece moved, with an active and an
\* inactive side
C16_Witness ==
    /\ last.op = "setup_players" /\ pc = "running"
    /\ nmoves >= 1
    /\ players # {} /\ players # Sides

-----------------------------------------------------------------------------
(* The star                                                                *)

\* the six-pointed star: the union of the triangles h <= 4, s <= 4,
\* h + s >= -4 and h >= -4, s >= -4, h + s <= 4
StarCells ==
    {c \in (-9..9) \X (-9..9) :
        \/ c[1] <= 4 /\ c[2] <= 4 /\ c[1] + c[2] >= -4
        \/ c[1] >= -4 /\ c[2] >= -4 /\ c[1] + c[2] <= 4}

\* the three triangles gen_board appends to the central one
OuterTriangles ==
    << triangle_tip_down(<<-4, -1>>, 4), triangle_tip_down(<<5, -1>>, 4),
       triangle_tip_down(<<-4, 8>>, 4) >>

\* no coordinate occurs twice in seq
Distinct(seq) == Cardinality(SeqToSet(seq)) = Len(seq)

\* C15: the key set gen_board makes has exactly 121 coordinates, 91 from the
\* size-13 tip-up triangle and 10 from each of the three size-4 tip-down
\* triangles with no overlap, and is the six-pointed star.
C15_BoardIsTheStar ==
    /\ DOMAIN board = StarCells
    /\ Cardinality(DOMAIN board) = 121
    /\ Len(triangle_tip_up(<<4, -8>>, 13)) = 91
    /\ Distinct(triangle_tip_up(<<4, -8>>, 13))
    /\ \A i \in 1..3 :
          /\ Len(OuterTriangles[i]) = 10
          /\ Distinct(OuterTriangles[i])
          /\ SeqToSet(OuterTriangles[i]) \cap CentralTriangle = {}
          /\ \A j \in 1..3 :
                i # j => SeqToSet(OuterTriangles[i]) \cap SeqToSet(OuterTriangles[j]) = {}
    /\ DOMAIN board
         = CentralTriangle \cup UNION {SeqToSet(OuterTriangles[i]) : i \in 1..3}

\* the board Board::new made, with the six tips of the star among its keys
C15_Witness ==
    /\ last.op = "new"
    /\ {<<4, -8>>, <<-8, 4>>, <<4, 4>>, <<-4, 8>>, <<8, -4>>, <<-4, -4>>}
          \subseteq DOMAIN board
    /\ \A c \in DOMAIN board : c \in StarCells

-----------------------------------------------------------------------------
(* Whose turn it is                                                        *)

\* the players sets a Board with turn t is compared under
AltPlayers(t) == {{}, {t}, Sides \ {t}, Sides}

\* C19: make_move on two Boards with the same cells and any turn and players
\* returns the same result and leaves the same cells; the piece at start is
\* never compared with turn, so a piece of any side, active or not, on turn
\* or not, is moved when the geometry allows it.
C19_MoveIgnoresTurnAndPlayers ==
    [][last'.op = "make_move" /\ pc' = "running"
         => /\ last'.ret = IsLegal(board, last'.start, last'.end)
            /\ \A t \in Sides : \A ps \in AltPlayers(t) :
                  LET other == make_move([board |-> board, players |-> ps, turn |-> t],
                                         last'.start, last'.end)
                  IN  /\ other.ret = last'.ret
                      /\ other.board = board'
                      /\ other.players = ps /\ other.turn = t]_vars

\* a piece of a side that is neither on turn nor active was moved
C19_Witness ==
    /\ last.op = "make_move" /\ pc = "running" /\ last.ret
    /\ board[last.end] \in Sides \ (players \cup {turn})

-----------------------------------------------------------------------------
(* The jump centres of the search                                          *)

\* both coordinates of a - b are even
EvenApart(a, b) == (a[1] - b[1]) % 2 = 0 /\ (a[2] - b[2]) % 2 = 0

\* C21: every jump centre of the search of validate_move differs from start
\* by an even amount in horz and in slant, so none is next to start and the
\* piece on start is never the piece jumped over; start is the first jump
\* centre and is never entered again as a landing cell.
C21_JumpCentresEvenFromStart ==
    last.op = "make_move" /\ last.centers # <<>>
        => /\ last.centers[1] = last.start
           /\ \A i \in 1..Len(last.centers) :
                 /\ EvenApart(last.centers[i], last.start)
                 /\ ~Contains(neighbors(last.start), last.centers[i])
                 /\ \A k \in 1..6 :
                       Add(last.centers[i], NEIGHBOR_OFFSETS[k]) # last.start
                 /\ (i > 1 => last.centers[i] # last.start)

\* a search over three layers around a loop of pieces that failed: every
\* landing cell was a jump centre
C21_Witness ==
    /\ last.op = "make_move" /\ pc = "running"
    /\ ~last.ret
    /\ last.layers >= 3
    /\ Len(last.centers) >= 4

-----------------------------------------------------------------------------
(* The drag                                                                *)

\* C22: under any sequence of CursorMoved, left-button Pressed and Released
\* events and clear calls, current_pos set implies start_pos set, start_pos
\* set implies drag_started, is_dropped implies current_pos set, and the
\* unreachable!() of update is never executed.
C22_DragStateValid ==
    /\ (input.current_pos # NoPoint => input.start_pos # NoPoint)
    /\ (input.start_pos # NoPoint => input.drag_started)
    /\ (input.is_dropped => input.current_pos # NoPoint)
    /\ ~InvalidCombination(input)
    /\ pc # "unreachable"

\* the cursor moved on after a drop that clear has not yet taken
C22_Witness ==
    /\ last.op = "cursor_moved" /\ pc = "running"
    /\ input.is_dropped
    /\ input.current_pos # NoPoint
    /\ FarApart(input.start_pos, input.current_pos)

-----------------------------------------------------------------------------
(* The phase machine                                                       *)

\* C23: when react is given a message the layout offers in the current
\* phase, it does not panic: Phase::next is not applied to GamePlay nor
\* Phase::previous to Start, and every step into GamePlay is a Next that
\* has just run setup_players on the current players set.
C23_PhaseMachineNeverPanics ==
    [][(GuiNext \/ GuiPrevious \/ GuiToggle) =>
        /\ pc' = "running"
        /\ (last'.op = "react_next" => phase_next(phase) # Unreachable)
        /\ (last'.op = "react_previous" => phase_previous(phase) # Unreachable)
        /\ (phase' = "GamePlay" =>
              /\ last'.op = "react_next"
              /\ "setup_players" \in last'.calls
              /\ players' = players
              /\ board' = setup_cells(board, players)
              /\ turn' = LowestSide(players))]_vars

-----------------------------------------------------------------------------
(* The symmetry about the origin                                           *)

\* the cells of a set, each negated
Mirror(cells) == {Neg(c) : c \in cells}

\* C24: the board and the starting zones are point-symmetric about the
\* origin: c is a cell of the board iff -c is, the starting zone of
\* opposite(s) is the set of negations of the starting zone of s (so
\* right after new or setup_players the pieces of s, negated, fill the
\* zone of opposite(s), and face those of opposite(s) when it plays),
\* opposite is forward applied three times and forward applied six times
\* is the identity.
C24_PointSymmetric ==
    /\ Mirror(DOMAIN board) = DOMAIN board
    /\ \A s \in Sides :
          /\ Zone(opposite(s)) = Mirror(Zone(s))
          /\ opposite(s) = forward(forward(forward(s)))
          /\ forward(forward(forward(forward(forward(forward(s)))))) = s
    /\ (last.op \in {"new", "setup_players"} /\ pc = "running"
          => \A s \in players :
                /\ Mirror(CellsOf(board, s) \cap Zone(s)) = Zone(opposite(s))
                /\ (opposite(s) \in players
                      => \A c \in Zone(s) : board[Neg(c)] = opposite(s)))

\* setup_players has seeded two sides that face each other
C24_Witness ==
    /\ last.op = "setup_players" /\ pc = "running"
    /\ {"A", "D"} \subseteq players
    /\ \A c \in Zone("A") : board[c] = "A" /\ board[Neg(c)] = "D"

====
